---------------------------- MODULE Spec2Model ----------------------------
(***************************************************************************)
(* Model of the serde-derived (de)serialisation of the DynamoDB stream     *)
(* event types (src/src/dynamodb.rs) and of the EventBridge envelope       *)
(* (src/src/eventbridge.rs), driven through serde_json.                    *)
(*                                                                         *)
(* A JSON document is modelled as the tree serde_json walks: objects are   *)
(* SEQUENCES of <<key, value>> pairs (document order, duplicates possible),*)
(* so that the order in which derive(Deserialize) meets the keys, and what *)
(* it does with a repeated or unknown key, is part of the model.           *)
(*                                                                         *)
(* Rust values: Option<T> is <<>> (None) or <<x>> (Some(x)); Vec<T> is a   *)
(* sequence; HashMap<String, T> is a set of <<key, value>> pairs with      *)
(* unique keys (equality is unordered); a struct is a record over its Rust *)
(* field names; bytes::Bytes is a sequence of numbers 0..255; Result is    *)
(* Ok(v) / Err(e).                                                         *)
(***************************************************************************)
EXTENDS Integers, Sequences, FiniteSets, TLC

VARIABLES pc, target, input, value, wire, back

vars == <<pc, target, input, value, wire, back>>

---------------------------------------------------------------------------
(* JSON tree *)

JNull == [t |-> "null"]

JBool(b) == [t |-> "bool", v |-> b]

JNum(n) == [t |-> "num", v |-> n]

JStr(s) == [t |-> "str", v |-> s]

JArr(xs) == [t |-> "arr", v |-> xs]

JObj(pairs) == [t |-> "obj", v |-> pairs]

(* Result<T, serde_json::Error> *)

Ok(v) == [ok |-> TRUE, val |-> v]

Err(kind, what) == [ok |-> FALSE, kind |-> kind, what |-> what]

None == << >>

Some(x) == << x >>

---------------------------------------------------------------------------
(* Type descriptors: the Rust type a field is declared with. *)

TString == [k |-> "String"]

TBool == [k |-> "bool"]

TU64 == [k |-> "u64"]

TF64 == [k |-> "f64"]

TBytes == [k |-> "Bytes"]

TValue == [k |-> "Value"]

TOption(T) == [k |-> "Option", of |-> T]

TVec(T) == [k |-> "Vec", of |-> T]

THashMap(T) == [k |-> "HashMap", of |-> T]

TStruct(name) == [k |-> "Struct", name |-> name]

TEnum(name) == [k |-> "Enum", name |-> name]

(* A struct field: Rust name, wire key (serde rename), declared type, and  *)
(* whether it carries skip_serializing_if = "Option::is_none".             *)
Field(name, key, ty, skip) == [name |-> name, key |-> key, ty |-> ty, skip |-> skip]

---------------------------------------------------------------------------
(* The derived types of dynamodb.rs *)

DynamoDBEventFields ==
    << Field("records", "Records", TVec(TStruct("DynamoDBEventRecord")), FALSE) >>

DynamoDBEventRecordFields ==
    << Field("aws_region", "awsRegion", TString, FALSE),
       Field("dynamodb", "dynamodb", TStruct("DynamoDBStreamRecord"), FALSE),
       Field("event_id", "eventID", TString, FALSE),
       Field("event_name", "eventName", TEnum("DynamoDBOperationType"), FALSE),
       Field("event_source", "eventSource", TString, FALSE),
       Field("event_version", "eventVersion", TString, FALSE),
       Field("event_source_arn", "eventSourceARN", TString, FALSE),
       Field("user_identity", "userIdentity",
             TOption(TStruct("DynamoDBUserIdentity")), FALSE) >>

DynamoDBUserIdentityFields ==
    << Field("type", "type", TString, FALSE),
       Field("principal_id", "principalId", TString, FALSE) >>

(* Variant: SizeBytes declared Option<u64>. *)
DynamoDBStreamRecordFields_OptionalSize ==
    << Field("approximate_creation_date_time", "ApproximateCreationDateTime",
             TOption(TF64), FALSE),
       Field("keys", "Keys", TOption(THashMap(TStruct("AttributeValue"))), FALSE),
       Field("new_image", "NewImage",
             TOption(THashMap(TStruct("AttributeValue"))), FALSE),
       Field("old_image", "OldImage",
             TOption(THashMap(TStruct("AttributeValue"))), FALSE),
       Field("sequence_number", "SequenceNumber", TString, FALSE),
       Field("size_bytes", "SizeBytes", TOption(TU64), FALSE),
       Field("stream_view_type", "StreamViewType", TString, FALSE) >>

DynamoDBStreamRecordFields ==
    << Field("approximate_creation_date_time", "ApproximateCreationDateTime",
             TOption(TF64), FALSE),
       Field("keys", "Keys", TOption(THashMap(TStruct("AttributeValue"))), FALSE),
       Field("new_image", "NewImage",
             TOption(THashMap(TStruct("AttributeValue"))), FALSE),
       Field("old_image", "OldImage",
             TOption(THashMap(TStruct("AttributeValue"))), FALSE),
       Field("sequence_number", "SequenceNumber", TString, FALSE),
       Field("size_bytes", "SizeBytes", TU64, FALSE),
       Field("stream_view_type", "StreamViewType", TString, FALSE) >>

(* Variant: the enum without rename_all, its variants under their Rust     *)
(* names.                                                                  *)
DynamoDBOperationType_NoRename ==
    << <<"Insert", "Insert">>, <<"Modify", "Modify">>, <<"Remove", "Remove">> >>

(* rename_all = "UPPERCASE": <<Rust variant, wire name>> *)
DynamoDBOperationType ==
    << <<"Insert", "INSERT">>, <<"Modify", "MODIFY">>, <<"Remove", "REMOVE">> >>

(* Variant: no skip_serializing_if on the fields. *)
AttributeValueFields_NoSkip ==
    << Field("b", "B", TOption(TBytes), FALSE),
       Field("bool", "BOOL", TOption(TBool), FALSE),
       Field("bs", "BS", TOption(TVec(TBytes)), FALSE),
       Field("l", "L", TOption(TVec(TStruct("AttributeValue"))), FALSE),
       Field("m", "M", TOption(THashMap(TStruct("AttributeValue"))), FALSE),
       Field("n", "N", TOption(TString), FALSE),
       Field("ns", "NS", TOption(TVec(TString)), FALSE),
       Field("null", "NULL", TOption(TBool), FALSE),
       Field("s", "S", TOption(TString), FALSE),
       Field("ss", "SS", TOption(TVec(TString)), FALSE) >>

(* Variant: N and NS declared as numbers. *)
AttributeValueFields_NumericN ==
    << Field("b", "B", TOption(TBytes), TRUE),
       Field("bool", "BOOL", TOption(TBool), TRUE),
       Field("bs", "BS", TOption(TVec(TBytes)), TRUE),
       Field("l", "L", TOption(TVec(TStruct("AttributeValue"))), TRUE),
       Field("m", "M", TOption(THashMap(TStruct("AttributeValue"))), TRUE),
       Field("n", "N", TOption(TF64), TRUE),
       Field("ns", "NS", TOption(TVec(TF64)), TRUE),
       Field("null", "NULL", TOption(TBool), TRUE),
       Field("s", "S", TOption(TString), TRUE),
       Field("ss", "SS", TOption(TVec(TString)), TRUE) >>

AttributeValueFields ==
    << Field("b", "B", TOption(TBytes), TRUE),
       Field("bool", "BOOL", TOption(TBool), TRUE),
       Field("bs", "BS", TOption(TVec(TBytes)), TRUE),
       Field("l", "L", TOption(TVec(TStruct("AttributeValue"))), TRUE),
       Field("m", "M", TOption(THashMap(TStruct("AttributeValue"))), TRUE),
       Field("n", "N", TOption(TString), TRUE),
       Field("ns", "NS", TOption(TVec(TString)), TRUE),
       Field("null", "NULL", TOption(TBool), TRUE),
       Field("s", "S", TOption(TString), TRUE),
       Field("ss", "SS", TOption(TVec(TString)), TRUE) >>

(* Variant: detail_type without its serde rename. *)
EventBridgeEventFields_NoRename(T) ==
    << Field("id", "id", TString, FALSE),
       Field("version", "version", TString, FALSE),
       Field("account", "account", TString, FALSE),
       Field("time", "time", TString, FALSE),
       Field("region", "region", TString, FALSE),
       Field("resources", "resources", TVec(TString), FALSE),
       Field("source", "source", TString, FALSE),
       Field("detail_type", "detail_type", TString, FALSE),
       Field("detail", "detail", T, FALSE) >>

(* The derived types of eventbridge.rs; the type parameter T is the type   *)
(* of the last field.                                                      *)
EventBridgeEventFields(T) ==
    << Field("id", "id", TString, FALSE),
       Field("version", "version", TString, FALSE),
       Field("account", "account", TString, FALSE),
       Field("time", "time", TString, FALSE),
       Field("region", "region", TString, FALSE),
       Field("resources", "resources", TVec(TString), FALSE),
       Field("source", "source", TString, FALSE),
       Field("detail_type", "detail-type", TString, FALSE),
       Field("detail", "detail", T, FALSE) >>

EC2StateChangeDetailFields ==
    << Field("instance_id", "instance-id", TString, FALSE),
       Field("state", "state", TString, FALSE) >>

Fields(name) ==
    CASE name = "DynamoDBEvent" -> DynamoDBEventFields
      [] name = "DynamoDBEventRecord" -> DynamoDBEventRecordFields
      [] name = "DynamoDBUserIdentity" -> DynamoDBUserIdentityFields
      [] name = "DynamoDBStreamRecord" -> DynamoDBStreamRecordFields
      [] name = "AttributeValue" -> AttributeValueFields
      [] name = "EventBridgeEvent<Value>" -> EventBridgeEventFields(TValue)
      [] name = "EventBridgeEvent<EC2StateChangeDetail>" ->
             EventBridgeEventFields(TStruct("EC2StateChangeDetail"))
      [] name = "EC2StateChangeDetail" -> EC2StateChangeDetailFields

Variants(name) ==
    CASE name = "DynamoDBOperationType" -> DynamoDBOperationType

---------------------------------------------------------------------------
(* Scalars *)

(* str::as_bytes for the texts that occur as B / BS payloads. *)
Utf8(s) ==
    CASE s = "" -> << >>
      [] s = "aGk=" -> <<97, 71, 107, 61>>
      [] s = "hi" -> <<104, 105>>
      [] s = "!" -> <<33>>

IsU8(j) == j.t = "num" /\ j.v \in 0..255

(* Variant: an empty string is refused. *)
DeserializeString_NonEmpty(j) ==
    IF j.t = "str" /\ j.v # "" THEN Ok(j.v) ELSE Err("invalid_type", j.t)

(* String: a JSON string, copied. *)
DeserializeString(j) ==
    IF j.t = "str" THEN Ok(j.v) ELSE Err("invalid_type", j.t)

DeserializeBool(j) ==
    IF j.t = "bool" THEN Ok(j.v) ELSE Err("invalid_type", j.t)

DeserializeU64(j) ==
    IF j.t # "num" THEN Err("invalid_type", j.t)
    ELSE IF j.v < 0 THEN Err("invalid_value", "negative")
    ELSE Ok(j.v)

DeserializeF64(j) ==
    IF j.t = "num" THEN Ok(j.v) ELSE Err("invalid_type", j.t)

(* Variant: Bytes read from a string only. *)
DeserializeBytes_StringOnly(j) ==
    IF j.t = "str" THEN Ok(Utf8(j.v)) ELSE Err("invalid_type", j.t)

(* bytes::Bytes (serde feature): deserialize_byte_buf with a visitor that  *)
(* takes a sequence of u8 or a string; a string contributes its own UTF-8  *)
(* bytes.                                                                  *)
DeserializeBytes(j) ==
    CASE j.t = "str" -> Ok(Utf8(j.v))
      [] j.t = "arr" ->
           IF \E i \in 1..Len(j.v) : ~IsU8(j.v[i])
           THEN LET i == CHOOSE i \in 1..Len(j.v) :
                             /\ ~IsU8(j.v[i])
                             /\ \A h \in 1..(i - 1) : IsU8(j.v[h])
                IN  IF j.v[i].t = "num" THEN Err("invalid_value", "u8")
                    ELSE Err("invalid_type", j.v[i].t)
           ELSE Ok([i \in 1..Len(j.v) |-> j.v[i].v])
      [] OTHER -> Err("invalid_type", j.t)

(* Bytes serialises with serialize_bytes, which serde_json writes as an    *)
(* array of numbers.                                                       *)
SerializeBytes(b) == JArr([i \in 1..Len(b) |-> JNum(b[i])])

(* A unit-variant enum: the variant's wire name as a string, or the        *)
(* externally tagged form {"NAME": null}.                                  *)
DeserializeEnum(variants, j) ==
    LET Wire == {variants[i][2] : i \in 1..Len(variants)}
        Pick(w) == LET i == CHOOSE i \in 1..Len(variants) : variants[i][2] = w
                   IN  variants[i][1]
    IN  CASE j.t = "str" ->
               IF j.v \in Wire THEN Ok(Pick(j.v))
               ELSE Err("unknown_variant", j.v)
          [] j.t = "obj" ->
               IF Len(j.v) = 0 THEN Err("invalid_value", "map")
               ELSE IF j.v[1][1] \notin Wire THEN Err("unknown_variant", j.v[1][1])
               ELSE IF j.v[1][2].t # "null" THEN Err("invalid_type", j.v[1][2].t)
               ELSE IF Len(j.v) > 1 THEN Err("invalid_value", "map")
               ELSE Ok(Pick(j.v[1][1]))
          [] OTHER -> Err("invalid_type", j.t)

SerializeEnum(variants, v) ==
    LET i == CHOOSE i \in 1..Len(variants) : variants[i][1] = v
    IN  JStr(variants[i][2])

---------------------------------------------------------------------------
(* Compound types *)

RECURSIVE Deserialize(_, _)
RECURSIVE DeserializeVec(_, _, _, _)
RECURSIVE DeserializeHashMap(_, _, _, _)
RECURSIVE VisitMap(_, _, _, _)
RECURSIVE VisitSeq(_, _, _, _)
RECURSIVE Serialize(_, _, _)
RECURSIVE SetToSeq(_)

FieldIndex(fields, key) ==
    IF \E i \in 1..Len(fields) : fields[i].key = key
    THEN CHOOSE i \in 1..Len(fields) : fields[i].key = key
    ELSE 0

(* HashMap::insert: the last value for a key wins. *)
Insert(m, k, v) == {p \in m : p[1] # k} \cup {<<k, v>>}

Get(m, k) == (CHOOSE p \in m : p[1] = k)[2]

KeysOf(m) == {p[1] : p \in m}

(* The struct value once every key has been visited: a field never met is  *)
(* None when it is an Option and a missing-field error otherwise, the      *)
(* first such field in declaration order being the one reported.           *)
Finish(fields, slots) ==
    LET Missing(i) == slots[i] = << >> /\ fields[i].ty.k # "Option"
    IN  IF \E i \in 1..Len(fields) : Missing(i)
        THEN LET i == CHOOSE i \in 1..Len(fields) :
                          Missing(i) /\ \A h \in 1..(i - 1) : ~Missing(h)
             IN  Err("missing_field", fields[i].key)
        ELSE Ok([nm \in {fields[i].name : i \in 1..Len(fields)} |->
                   LET i == CHOOSE i \in 1..Len(fields) : fields[i].name = nm
                   IN  IF slots[i] = << >> THEN None ELSE slots[i][1]])

(* Variant: deny_unknown_fields. *)
VisitMap_DenyUnknown(fields, pairs, i, slots) ==
    IF i > Len(pairs) THEN Finish(fields, slots)
    ELSE LET f == FieldIndex(fields, pairs[i][1])
         IN  IF f = 0 THEN Err("unknown_field", pairs[i][1])
             ELSE IF slots[f] # << >> THEN Err("duplicate_field", fields[f].key)
             ELSE LET r == Deserialize(fields[f].ty, pairs[i][2])
                  IN  IF ~r.ok THEN r
                      ELSE VisitMap(fields, pairs, i + 1,
                                    [slots EXCEPT ![f] = <<r.val>>])

(* derive(Deserialize), visit_map: keys in document order; an unknown key  *)
(* is skipped, a repeated key is an error, a value that fails to           *)
(* deserialise ends the whole struct with that error.                      *)
VisitMap(fields, pairs, i, slots) ==
    IF i > Len(pairs) THEN Finish(fields, slots)
    ELSE LET f == FieldIndex(fields, pairs[i][1])
         IN  IF f = 0 THEN VisitMap(fields, pairs, i + 1, slots)
             ELSE IF slots[f] # << >> THEN Err("duplicate_field", fields[f].key)
             ELSE LET r == Deserialize(fields[f].ty, pairs[i][2])
                  IN  IF ~r.ok THEN r
                      ELSE VisitMap(fields, pairs, i + 1,
                                    [slots EXCEPT ![f] = <<r.val>>])

(* derive(Deserialize), visit_seq: the fields by position. *)
VisitSeq(fields, xs, i, slots) ==
    IF i > Len(fields)
    THEN IF Len(xs) > Len(fields) THEN Err("invalid_length", "struct")
         ELSE Finish(fields, slots)
    ELSE IF i > Len(xs) THEN Err("invalid_length", "struct")
    ELSE LET r == Deserialize(fields[i].ty, xs[i])
         IN  IF ~r.ok THEN r
             ELSE VisitSeq(fields, xs, i + 1, [slots EXCEPT ![i] = <<r.val>>])

DeserializeStruct(fields, j) ==
    LET empty == [i \in 1..Len(fields) |-> << >>]
    IN  CASE j.t = "obj" -> VisitMap(fields, j.v, 1, empty)
          [] j.t = "arr" -> VisitSeq(fields, j.v, 1, empty)
          [] OTHER -> Err("invalid_type", j.t)

(* Variant: a failing element is left out. *)
DeserializeVec_SkipErrors(T, xs, i, acc) ==
    IF i > Len(xs) THEN Ok(acc)
    ELSE LET r == Deserialize(T, xs[i])
         IN  DeserializeVec(T, xs, i + 1, IF r.ok THEN Append(acc, r.val) ELSE acc)

(* Vec<T>: the elements in order; the first failing element ends it. *)
DeserializeVec(T, xs, i, acc) ==
    IF i > Len(xs) THEN Ok(acc)
    ELSE LET r == Deserialize(T, xs[i])
         IN  IF ~r.ok THEN r
             ELSE DeserializeVec(T, xs, i + 1, Append(acc, r.val))

(* HashMap<String, T>: the entries in order; the first failing value ends  *)
(* it.                                                                     *)
DeserializeHashMap(T, pairs, i, acc) ==
    IF i > Len(pairs) THEN Ok(acc)
    ELSE LET r == Deserialize(T, pairs[i][2])
         IN  IF ~r.ok THEN r
             ELSE DeserializeHashMap(T, pairs, i + 1, Insert(acc, pairs[i][1], r.val))

(* Option<T>: null is None, anything else is Some(T). *)
DeserializeOption(T, j) ==
    IF j.t = "null" THEN Ok(None)
    ELSE LET r == Deserialize(T, j)
         IN  IF r.ok THEN Ok(Some(r.val)) ELSE r

Deserialize(ty, j) ==
    CASE ty.k = "String" -> DeserializeString(j)
      [] ty.k = "bool" -> DeserializeBool(j)
      [] ty.k = "u64" -> DeserializeU64(j)
      [] ty.k = "f64" -> DeserializeF64(j)
      [] ty.k = "Bytes" -> DeserializeBytes(j)
      [] ty.k = "Value" -> Ok(j)
      [] ty.k = "Option" -> DeserializeOption(ty.of, j)
      [] ty.k = "Vec" ->
           IF j.t = "arr" THEN DeserializeVec(ty.of, j.v, 1, << >>)
           ELSE Err("invalid_type", j.t)
      [] ty.k = "HashMap" ->
           IF j.t = "obj" THEN DeserializeHashMap(ty.of, j.v, 1, {})
           ELSE Err("invalid_type", j.t)
      [] ty.k = "Enum" -> DeserializeEnum(Variants(ty.name), j)
      [] ty.k = "Struct" -> DeserializeStruct(Fields(ty.name), j)

SetToSeq(S) ==
    IF S = {} THEN << >>
    ELSE LET x == CHOOSE x \in S : TRUE
         IN  <<x>> \o SetToSeq(S \ {x})

Reverse(xs) == [i \in 1..Len(xs) |-> xs[Len(xs) + 1 - i]]

(* The fields a derived Serialize writes, in declaration order; a field    *)
(* with skip_serializing_if = "Option::is_none" is left out when None.     *)
Written(fields, v) ==
    SelectSeq([i \in 1..Len(fields) |-> fields[i]],
              LAMBDA f : ~(f.skip /\ v[f.name] = None))

(* A HashMap iterates in no fixed order: rev picks one of two orders.      *)
Serialize(ty, v, rev) ==
    CASE ty.k = "String" -> JStr(v)
      [] ty.k = "bool" -> JBool(v)
      [] ty.k = "u64" -> JNum(v)
      [] ty.k = "f64" -> JNum(v)
      [] ty.k = "Bytes" -> SerializeBytes(v)
      [] ty.k = "Value" -> v
      [] ty.k = "Option" ->
           IF v = None THEN JNull ELSE Serialize(ty.of, v[1], rev)
      [] ty.k = "Vec" -> JArr([i \in 1..Len(v) |-> Serialize(ty.of, v[i], rev)])
      [] ty.k = "HashMap" ->
           LET es == IF rev THEN Reverse(SetToSeq(v)) ELSE SetToSeq(v)
           IN  JObj([i \in 1..Len(es) |->
                       <<es[i][1], Serialize(ty.of, es[i][2], rev)>>])
      [] ty.k = "Enum" -> SerializeEnum(Variants(ty.name), v)
      [] ty.k = "Struct" ->
           LET fs == Written(Fields(ty.name), v)
           IN  JObj([i \in 1..Len(fs) |->
                       <<fs[i].key, Serialize(fs[i].ty, v[fs[i].name], rev)>>])

---------------------------------------------------------------------------
(* Documents the decoders are run on *)

MaxDepth == 3

MaxPrefix == 2

BigNum == "123456789012345678901234567890.5"

W(key, payload) == JObj(<< <<key, payload>> >>)

W2(k1, p1, k2, p2) == JObj(<< <<k1, p1>>, <<k2, p2>> >>)

Strs(xs) == JArr([i \in 1..Len(xs) |-> JStr(xs[i])])

(* Typed-value wire objects with one key and a payload of the right type   *)
WireLeaves ==
    { W("B", JStr("aGk=")), W("B", JStr("")), W("B", JStr("!")),
      W("B", JArr(<<JNum(104), JNum(105)>>)),
      W("BOOL", JBool(TRUE)), W("BOOL", JBool(FALSE)),
      W("BS", Strs(<<"hi", "">>)), W("BS", JArr(<< >>)),
      W("N", JStr("101")), W("N", JStr(BigNum)), W("N", JStr("-1.5e3")),
      W("N", JStr("abc")), W("N", JStr("")),
      W("NS", Strs(<<"42.2", "-19", BigNum>>)), W("NS", Strs(<<"7.5", "abc">>)),
      W("NS", JArr(<< >>)),
      W("NULL", JBool(TRUE)),
      W("S", JStr("x")), W("S", JStr("")),
      W("SS", Strs(<<"Giraffe", "Hippo">>)) }

(* ... and the other shapes: no key, several keys, foreign keys, a         *)
(* repeated key, null payloads, payloads of the wrong type.                *)
WireOdd ==
    { JObj(<< >>),
      W2("S", JStr("x"), "N", JStr("1")),
      W2("N", JStr("1"), "S", JStr("x")),
      W("X", JNum(1)),
      W2("S", JStr("x"), "X", JNum(1)),
      W2("S", JStr("x"), "S", JStr("y")),
      W2("S", JStr("x"), "N", JNull),
      W("S", JNull), W("N", JNull), W("B", JNull), W("NS", JNull),
      W("N", JNum(1)), W("S", JNum(1)), W("BOOL", JStr("true")),
      W("NULL", JNum(1)), W("B", JNum(1)), W("B", JArr(<<JNum(300)>>)),
      W("B", JArr(<<JStr("hi")>>)), W("BS", JStr("hi")),
      W("NS", JArr(<<JStr("1"), JNum(2)>>)),
      W("NS", JStr("1")), W("SS", JArr(<<JNum(1)>>)),
      W("L", JStr("x")), W("M", JArr(<< >>)), W("L", JArr(<<JNum(1)>>)),
      JArr(<< >>), JStr("x"), JNull }

WireCore ==
    { W("B", JStr("aGk=")), W("N", JStr(BigNum)), W("S", JStr("x")),
      W("N", JNum(1)), W("X", JNum(1)), JObj(<< >>) }

WireSide == W("S", JStr("y"))

RECURSIVE WireNest(_)
WireNest(d) ==
    IF d = 0 THEN WireCore
    ELSE LET P == WireNest(d - 1)
         IN  P \cup { W("L", JArr(<<x>>)) : x \in P }
               \cup { W("L", JArr(<<WireSide, x>>)) : x \in P }
               \cup { W("M", JObj(<< <<"a", x>> >>)) : x \in P }
               \cup { W("M", JObj(<< <<"a", WireSide>>, <<"b", WireSide>>, <<"a", x>> >>)) : x \in P }

AttributeValueInputs == WireLeaves \cup WireOdd \cup WireNest(MaxDepth)

---------------------------------------------------------------------------
(* AttributeValue values built in Rust rather than decoded *)

(* derive(Default): every field None. *)
AttributeValueDefault ==
    [nm \in {AttributeValueFields[i].name : i \in 1..Len(AttributeValueFields)} |-> None]

AV(name, payload) == [AttributeValueDefault EXCEPT ![name] = Some(payload)]

ValueLeaves ==
    { AV("b", << >>), AV("b", <<104, 105>>), AV("b", <<0, 255>>),
      AV("bool", TRUE), AV("bool", FALSE),
      AV("bs", << >>), AV("bs", << <<104, 105>>, << >> >>),
      AV("n", "101"), AV("n", BigNum),
      AV("ns", << >>), AV("ns", <<"42.2", "-19">>),
      AV("null", TRUE), AV("null", FALSE),
      AV("s", "x"), AV("s", ""),
      AV("ss", << >>), AV("ss", <<"Giraffe", "Hippo">>),
      AV("l", << >>), AV("m", {}) }

(* ... and values with no or two populated fields, which the struct also   *)
(* admits.                                                                 *)
ValueOdd ==
    { AttributeValueDefault,
      [AV("s", "x") EXCEPT !["n"] = Some("1")],
      [AV("b", <<104, 105>>) EXCEPT !["null"] = Some(TRUE)] }

ValueCore ==
    { AV("b", <<104, 105>>), AV("n", BigNum), AV("s", "x"), AV("bool", TRUE),
      AV("ns", <<"42.2", "-19">>) }

ValueSide == AV("s", "y")

RECURSIVE ValueNest(_)
ValueNest(d) ==
    IF d = 0 THEN ValueCore
    ELSE LET P == ValueNest(d - 1)
         IN  P \cup { AV("l", <<x>>) : x \in P }
               \cup { AV("l", <<ValueSide, x>>) : x \in P }
               \cup { AV("m", {<<"a", x>>}) : x \in P }
               \cup { AV("m", {<<"a", x>>, <<"b", ValueSide>>}) : x \in P }

BuiltValues == ValueLeaves \cup ValueOdd \cup ValueNest(MaxDepth)

---------------------------------------------------------------------------
(* Stream envelopes *)

Without(pairs, key) == SelectSeq(pairs, LAMBDA p : p[1] # key)

With(pairs, key, v) == [i \in 1..Len(pairs) |-> IF pairs[i][1] = key THEN <<key, v>> ELSE pairs[i]]

(* One INSERT record: Keys {"Id": {"N": "101"}}, NewImage with a map that  *)
(* holds a list of two strings.                                            *)
GoodImage ==
    JObj(<< <<"Id", W("N", JStr("101"))>>,
            <<"Doc", W("M", JObj(<< <<"Tags", W("L", JArr(<<W("S", JStr("Cookies")),
                                                           W("S", JStr("Coffee"))>>))>>,
                                    <<"Raw", W("B", JStr("aGk="))>> >>))>> >>)

StreamPairs ==
    << <<"ApproximateCreationDateTime", JNum(1480642020)>>,
       <<"Keys", JObj(<< <<"Id", W("N", JStr("101"))>> >>)>>,
       <<"NewImage", GoodImage>>,
       <<"OldImage", JObj(<< <<"Id", W("N", JStr("101"))>> >>)>>,
       <<"SequenceNumber", JStr("4421584500000000017450439091")>>,
       <<"SizeBytes", JNum(26)>>,
       <<"StreamViewType", JStr("NEW_AND_OLD_IMAGES")>> >>

RecordPairs ==
    << <<"awsRegion", JStr("us-west-2")>>,
       <<"dynamodb", JObj(StreamPairs)>>,
       <<"eventID", JStr("c4ca4238a0b923820dcc509a6f75849b")>>,
       <<"eventName", JStr("INSERT")>>,
       <<"eventSource", JStr("aws:dynamodb")>>,
       <<"eventVersion", JStr("1.1")>>,
       <<"eventSourceARN", JStr("arn:aws:dynamodb:us-west-2:123456789012:table/T/stream/S")>>,
       <<"userIdentity", JObj(<< <<"type", JStr("Service")>>,
                                 <<"principalId", JStr("dynamodb.amazonaws.com")>> >>)>> >>

GoodRecord == JObj(RecordPairs)

RecordKeys == {RecordPairs[i][1] : i \in 1..Len(RecordPairs)}

StreamKeys == {StreamPairs[i][1] : i \in 1..Len(StreamPairs)}

EventNames ==
    { JStr("INSERT"), JStr("MODIFY"), JStr("REMOVE"), JStr("UPDATE"), JStr("insert"),
      JStr("Insert"), JStr(""), JNum(1), JNull, W("REMOVE", JNull) }

(* Images whose decoding fails somewhere inside, at the top or nested. *)
BadImages ==
    { JObj(<< <<"Id", W("N", JNum(101))>> >>),
      JObj(<< <<"Id", W("N", JStr("101"))>>, <<"Bad", W("BOOL", JStr("true"))>> >>),
      JObj(<< <<"Doc", W("M", JObj(<< <<"Tags", W("L", JArr(<<W("S", JStr("Cookies")),
                                                         W("S", JNum(7))>>))>> >>))>> >>),
      JObj(<< <<"Doc", W("L", JArr(<<W("M", JObj(<< <<"k", W("B", JNum(1))>> >>))>>))>> >>),
      JStr("image") }

(* A record with one stream-detail key removed or replaced. *)
RecordWithStream(sp) == JObj(With(RecordPairs, "dynamodb", JObj(sp)))

Records ==
    { JObj(With(Without(RecordPairs, drop), "eventName", nm)) :
          drop \in (RecordKeys \ {"eventName"}) \cup {"-"}, nm \in EventNames }
    \cup { JObj(Without(RecordPairs, "eventName")) }
    \cup { RecordWithStream(With(Without(StreamPairs, drop), "SizeBytes", sz)) :
          drop \in StreamKeys \cup {"-"}, sz \in {JNum(26), JNum(0), JNum(-1), JStr("26")} }
    \cup { RecordWithStream(With(StreamPairs, img, bad)) :
          img \in {"Keys", "NewImage", "OldImage"}, bad \in BadImages \cup {JNull} }
    \cup { JObj(Without(Without(RecordPairs, "eventID"), "eventVersion")),
           JObj(With(RecordPairs, "userIdentity", JNull)),
           JObj(With(RecordPairs, "userIdentity", JObj(<< <<"type", JStr("Service")>> >>))),
           JObj(RecordPairs \o << <<"eventID", JStr("again")>> >>),
           JObj(RecordPairs \o << <<"tableName", JStr("ignored")>> >>),
           JNum(1) }

RECURSIVE Repeat(_, _)
Repeat(x, n) == IF n = 0 THEN << >> ELSE <<x>> \o Repeat(x, n - 1)

(* The record under test after 0..MaxPrefix good records, or before one. *)
DynamoDBEventInputs ==
    { W("Records", JArr(Repeat(GoodRecord, n) \o <<r>>)) :
          n \in 0..MaxPrefix, r \in Records }
    \cup { W("Records", JArr(<<r, GoodRecord>>)) : r \in Records }
    \cup { W("Records", JArr(<< >>)), JObj(<< >>), W("records", JArr(<<GoodRecord>>)),
           W("Records", JNull) }

---------------------------------------------------------------------------
(* Routed envelopes: the EC2 state-change fixture and its variations *)

FixtureArn == "arn:aws:ec2:us-west-1:123456789012:instance/i-1234567890abcdef0"

FixtureDetail ==
    JObj(<< <<"instance-id", JStr("i-1234567890abcdef0")>>,
            <<"state", JStr("terminated")>> >>)

FixturePairs ==
    << <<"id", JStr("6a7e8feb-b491-4cf7-a9f1-bf3703467718")>>,
       <<"detail-type", JStr("EC2 Instance State-change Notification")>>,
       <<"source", JStr("aws.ec2")>>,
       <<"account", JStr("111122223333")>>,
       <<"time", JStr("2017-12-22T18:43:48Z")>>,
       <<"region", JStr("us-west-1")>>,
       <<"resources", Strs(<<FixtureArn>>)>>,
       <<"detail", FixtureDetail>>,
       <<"version", JStr("0")>> >>

Fixture == JObj(FixturePairs)

BridgeKeys == {FixturePairs[i][1] : i \in 1..Len(FixturePairs)}

Rename(pairs, key, to) == [i \in 1..Len(pairs) |-> IF pairs[i][1] = key THEN <<to, pairs[i][2]>> ELSE pairs[i]]

ResourceLists ==
    { Strs(<<FixtureArn>>), Strs(<< >>), Strs(<<"arn:a", "arn:b">>),
      Strs(<<"arn:b", "arn:a">>), JStr("arn:a"), JArr(<<JNum(1)>>) }

Details ==
    { FixtureDetail,
      JObj(<< <<"state", JStr("terminated")>>, <<"instance-id", JStr("i-0")>>,
              <<"extra", JBool(TRUE)>> >>),
      JObj(<< <<"state", JStr("terminated")>> >>),
      JObj(<< <<"instance-id", JNum(7)>>, <<"state", JStr("stopped")>> >>),
      JStr("opaque"), JNum(42), JNull }

EventBridgeEventInputs ==
    { JObj(With(With(Without(ps, drop), "resources", rs), "detail", d)) :
          ps \in {FixturePairs, Reverse(FixturePairs)},
          drop \in BridgeKeys \cup {"-"}, rs \in ResourceLists, d \in Details }
    \cup { JObj(Rename(FixturePairs, "id", "ID")),
           JObj(Rename(FixturePairs, "detail-type", "detail_type")),
           JObj(Rename(FixturePairs, "detail-type", "Detail-Type")),
           JObj(Rename(FixturePairs, "resources", "Resources")),
           JObj(FixturePairs \o << <<"trace", JStr("ignored")>> >>),
           JObj(FixturePairs \o << <<"id", JStr("again")>> >>),
           JObj(With(FixturePairs, "version", JNum(0))),
           JObj(<< >>) }

---------------------------------------------------------------------------
(* The program: serde_json::from_slice::<T>, serde_json::to_string, and    *)
(* from_slice on what to_string wrote.                                     *)

Targets ==
    { "AttributeValue", "DynamoDBEventRecord", "DynamoDBEvent",
      "EventBridgeEvent<Value>", "EventBridgeEvent<EC2StateChangeDetail>" }

Inputs(tg) ==
    CASE tg = "AttributeValue" -> AttributeValueInputs
      [] tg = "DynamoDBEventRecord" -> Records
      [] tg = "DynamoDBEvent" -> DynamoDBEventInputs
      [] OTHER -> EventBridgeEventInputs

Unset == [unset |-> TRUE]

Init ==
    /\ target \in Targets
    /\ \/ /\ pc = "start"
          /\ input \in Inputs(target)
          /\ value = Unset
       \/ /\ pc = "built"
          /\ target = "AttributeValue"
          /\ input = Unset
          /\ value \in {Ok(v) : v \in BuiltValues}
    /\ wire = Unset
    /\ back = Unset

Decode ==
    /\ pc = "start"
    /\ value' = Deserialize(TStruct(target), input)
    /\ pc' = "decoded"
    /\ UNCHANGED <<target, input, wire, back>>

Encode ==
    /\ pc \in {"decoded", "built"}
    /\ value.ok
    /\ \E rev \in BOOLEAN : wire' = Serialize(TStruct(target), value.val, rev)
    /\ pc' = "encoded"
    /\ UNCHANGED <<target, input, value, back>>

Reparse ==
    /\ pc = "encoded"
    /\ back' = Deserialize(TStruct(target), wire)
    /\ pc' = "reparsed"
    /\ UNCHANGED <<target, input, value, wire>>

Next == Decode \/ Encode \/ Reparse

Spec == Init /\ [][Next]_vars

---------------------------------------------------------------------------
(* Vocabulary of the properties *)

(* The state holds the result of decoding `input` as type tg. *)
DecodedAs(tg) == target = tg /\ pc \in {"decoded", "encoded", "reparsed"} /\ input # Unset

(* The state holds what to_string wrote for `value` of type tg. *)
EncodedAs(tg) == target = tg /\ pc \in {"encoded", "reparsed"}

Has(pairs, key) == \E i \in 1..Len(pairs) : pairs[i][1] = key

Lookup(pairs, key) ==
    pairs[CHOOSE i \in 1..Len(pairs) :
              pairs[i][1] = key /\ \A h \in 1..(i - 1) : pairs[h][1] # key][2]

Populated(v) == {nm \in DOMAIN v : v[nm] # None}

WireKeyOf(nm) ==
    AttributeValueFields[CHOOSE i \in 1..Len(AttributeValueFields) :
                             AttributeValueFields[i].name = nm].key

WireKeys == {AttributeValueFields[i].key : i \in 1..Len(AttributeValueFields)}

(* Exactly one populated variant, at every nesting level. *)
RECURSIVE WellFormed(_)
WellFormed(v) ==
    /\ Cardinality(Populated(v)) = 1
    /\ v.l # None => \A i \in 1..Len(v.l[1]) : WellFormed(v.l[1][i])
    /\ v.m # None => \A p \in v.m[1] : WellFormed(p[2])

RECURSIVE Max(_)
Max(S) == LET x == CHOOSE x \in S : TRUE
          IN  IF S = {x} THEN x
              ELSE LET y == Max(S \ {x}) IN IF x > y THEN x ELSE y

(* Levels of L / M around the innermost value. *)
RECURSIVE Depth(_)
Depth(v) ==
    LET inner == (IF v.l # None THEN {v.l[1][i] : i \in 1..Len(v.l[1])} ELSE {})
                 \cup (IF v.m # None THEN {p[2] : p \in v.m[1]} ELSE {})
    IN  IF v.l = None /\ v.m = None THEN 0
        ELSE IF inner = {} THEN 1
        ELSE 1 + Max({Depth(x) : x \in inner})

---------------------------------------------------------------------------
(* C1: for every well-formed AttributeValue v (one populated variant at    *)
(* every level, L / M nested to depth 3 and more), decoding what encoding  *)
(* v wrote succeeds and yields v again; maps compare as unordered          *)
(* key-to-value mappings, lists element by element in order.               *)
C1_RoundTrip ==
    (EncodedAs("AttributeValue") /\ pc = "reparsed" /\ WellFormed(value.val))
        => back = Ok(value.val)

C1_Witness ==
    /\ EncodedAs("AttributeValue") /\ pc = "reparsed" /\ input = Unset
    /\ WellFormed(value.val)
    /\ Depth(value.val) >= 3
    /\ value.val.m # None /\ Cardinality(value.val.m[1]) = 2
    /\ \E p \in value.val.m[1] : p[2].l # None /\ Len(p[2].l[1]) = 2
    /\ back = Ok(value.val)

(* The wire object of a well-formed value: one key, that of the populated  *)
(* variant, with L and M payloads of the same shape at every level.        *)
RECURSIVE SingleKeyWire(_, _)
SingleKeyWire(j, v) ==
    /\ j.t = "obj"
    /\ Len(j.v) = 1
    /\ \E nm \in Populated(v) : j.v[1][1] = WireKeyOf(nm)
    /\ v.l # None =>
         /\ j.v[1][2].t = "arr"
         /\ Len(j.v[1][2].v) = Len(v.l[1])
         /\ \A i \in 1..Len(v.l[1]) : SingleKeyWire(j.v[1][2].v[i], v.l[1][i])
    /\ v.m # None =>
         /\ j.v[1][2].t = "obj"
         /\ Len(j.v[1][2].v) = Cardinality(v.m[1])
         /\ \A i \in 1..Len(j.v[1][2].v) :
                /\ j.v[1][2].v[i][1] \in KeysOf(v.m[1])
                /\ SingleKeyWire(j.v[1][2].v[i][2], Get(v.m[1], j.v[1][2].v[i][1]))

(* C8: encoding a well-formed AttributeValue yields a wire object whose    *)
(* only key is the wire key of the populated variant (no key for a         *)
(* variant that is None), and so at every level inside L and M.            *)
C8_EncodeSingleKey ==
    (EncodedAs("AttributeValue") /\ WellFormed(value.val))
        => SingleKeyWire(wire, value.val)

C8_Witness ==
    /\ EncodedAs("AttributeValue") /\ input = Unset
    /\ WellFormed(value.val)
    /\ Depth(value.val) >= 3
    /\ value.val.l # None /\ Len(value.val.l[1]) = 2
    /\ SingleKeyWire(wire, value.val)
    /\ wire.v[1][1] = "L"

(* C6: the text of an N payload, and of each element of an NS payload, is  *)
(* stored as it stands and written back as it stands, whatever its length. *)
C6_NumericTextVerbatim ==
    (DecodedAs("AttributeValue") /\ input.t = "obj" /\ Len(input.v) = 1) =>
        LET key == input.v[1][1]
            x == input.v[1][2]
        IN  /\ (key = "N" /\ x.t = "str") =>
                /\ value = Ok(AV("n", x.v))
                /\ pc # "decoded" => wire = W("N", JStr(x.v))
            /\ (key = "NS" /\ x.t = "arr" /\ \A i \in 1..Len(x.v) : x.v[i].t = "str") =>
                /\ value = Ok(AV("ns", [i \in 1..Len(x.v) |-> x.v[i].v]))
                /\ pc # "decoded" => wire = input

C6_Witness ==
    /\ DecodedAs("AttributeValue") /\ pc = "reparsed"
    /\ input = W("N", JStr(BigNum))
    /\ value = Ok(AV("n", BigNum))
    /\ wire = input
    /\ back = value

---------------------------------------------------------------------------
(* C2 as stated: a typed-value wire object decodes only when its key set   *)
(* is exactly one key out of B, BOOL, BS, L, M, N, NS, NULL, S, SS; {} ,   *)
(* {"S": "x", "N": "1"} and {"X": 1} yield no value.                       *)
C2_ExactlyOneKey ==
    (DecodedAs("AttributeValue") /\ input.t = "obj" /\ value.ok)
        => (Len(input.v) = 1 /\ input.v[1][1] \in WireKeys)

KnownAt(pairs, i) == FieldIndex(AttributeValueFields, pairs[i][1]) # 0

PayloadAt(pairs, i) ==
    Deserialize(AttributeValueFields[FieldIndex(AttributeValueFields, pairs[i][1])].ty,
                pairs[i][2])

(* C2 as the code has it: the number of variant keys is not checked.  A    *)
(* wire object decodes exactly when no known key is repeated and every     *)
(* known key's payload decodes; a known key that is absent leaves its      *)
(* field None, a key outside the ten is ignored.  So {} and {"X": 1}       *)
(* decode to the value with every field None, and {"S": "x", "N": "1"} to  *)
(* a value with both s and n populated.                                    *)
C2_KeysIndependent ==
    (DecodedAs("AttributeValue") /\ input.t = "obj") =>
        LET ps == input.v
            NoRepeat == \A i, h \in 1..Len(ps) :
                            (i # h /\ KnownAt(ps, i)) => ps[i][1] # ps[h][1]
            PayloadsOk == \A i \in 1..Len(ps) : KnownAt(ps, i) => PayloadAt(ps, i).ok
        IN  /\ value.ok <=> (NoRepeat /\ PayloadsOk)
            /\ value.ok =>
                 \A f \in 1..Len(AttributeValueFields) :
                    value.val[AttributeValueFields[f].name] =
                        IF Has(ps, AttributeValueFields[f].key)
                        THEN Deserialize(AttributeValueFields[f].ty,
                                         Lookup(ps, AttributeValueFields[f].key)).val
                        ELSE None
            /\ input = JObj(<< >>) => value = Ok(AttributeValueDefault)
            /\ input = W("X", JNum(1)) => value = Ok(AttributeValueDefault)
            /\ input = W2("S", JStr("x"), "N", JStr("1"))
                 => value = Ok([AV("s", "x") EXCEPT !["n"] = Some("1")])

C2_Witness ==
    /\ DecodedAs("AttributeValue")
    /\ input = W2("S", JStr("x"), "N", JStr("1"))
    /\ value.ok
    /\ Populated(value.val) = {"s", "n"}

---------------------------------------------------------------------------
(* Base64, for the texts used as B payloads. *)
IsBase64(t) == t \in {"", "aGk="}

Base64Decode(t) ==
    CASE t = "" -> << >>
      [] t = "aGk=" -> <<104, 105>>

(* C3: {"B": t} decodes t as base64 into the Binary variant ("" to the     *)
(* empty, present byte sequence, "aGk=" to the two bytes of "hi"), text    *)
(* that is not base64 is refused, and encoding the decoded value writes    *)
(* {"B": t} again.                                                         *)
C3_BinaryFidelity ==
    (DecodedAs("AttributeValue") /\ input.t = "obj" /\ Len(input.v) = 1
       /\ input.v[1][1] = "B" /\ input.v[1][2].t = "str") =>
        LET t == input.v[1][2].v
        IN  IF IsBase64(t)
            THEN /\ value = Ok(AV("b", Base64Decode(t)))
                 /\ pc # "decoded" => wire = input
            ELSE ~value.ok

---------------------------------------------------------------------------
(* The decimal lexical form, for the texts used as N / NS payloads. *)
IsDecimal(t) == t \in {"1", "101", "-19", "42.2", "7.5", "-1.5e3", BigNum}

(* C7 as stated: {"N": x} decodes only if x is a string of the decimal     *)
(* lexical form, {"NS": xs} only if every element is one.                  *)
C7_DecimalFormRequired ==
    (DecodedAs("AttributeValue") /\ input.t = "obj" /\ Len(input.v) = 1 /\ value.ok) =>
        LET key == input.v[1][1]
            x == input.v[1][2]
        IN  /\ key = "N" => (x.t = "str" /\ IsDecimal(x.v))
            /\ key = "NS" => (x.t = "arr" /\ \A i \in 1..Len(x.v) :
                                 x.v[i].t = "str" /\ IsDecimal(x.v[i].v))

(* C7 as the code has it: {"N": x} decodes exactly when x is a string or   *)
(* null, {"NS": xs} exactly when xs is null or an array of strings.  A     *)
(* string is stored as it stands whatever its content ("abc" and "" too);  *)
(* null leaves the field None.                                             *)
C7_AnyStringAccepted ==
    (DecodedAs("AttributeValue") /\ input.t = "obj" /\ Len(input.v) = 1) =>
        LET key == input.v[1][1]
            x == input.v[1][2]
            AllStr == x.t = "arr" /\ \A i \in 1..Len(x.v) : x.v[i].t = "str"
        IN  /\ key = "N" =>
                /\ value.ok <=> x.t \in {"str", "null"}
                /\ x.t = "str" => value = Ok(AV("n", x.v))
                /\ x.t = "null" => value = Ok(AttributeValueDefault)
            /\ key = "NS" =>
                /\ value.ok <=> (x.t = "null" \/ AllStr)
                /\ AllStr => value = Ok(AV("ns", [i \in 1..Len(x.v) |-> x.v[i].v]))
                /\ x.t = "null" => value = Ok(AttributeValueDefault)

C7_Witness ==
    /\ DecodedAs("AttributeValue")
    /\ input = W("N", JStr("abc"))
    /\ value = Ok(AV("n", "abc"))

---------------------------------------------------------------------------
RecordType == TStruct("DynamoDBEventRecord")

(* The record decodes once its eventName is a supported one. *)
RestDecodes(j) == Deserialize(RecordType, JObj(With(j.v, "eventName", JStr("INSERT")))).ok

OperationKind(s) ==
    CASE s = "INSERT" -> "Insert"
      [] s = "MODIFY" -> "Modify"
      [] s = "REMOVE" -> "Remove"

(* C4: a change record whose eventName is "INSERT", "MODIFY" or "REMOVE"   *)
(* decodes to the operation kind of that name; with any other string       *)
(* (another word, another case, the empty string) it fails with the        *)
(* unknown-variant error naming that string, and no kind is substituted.   *)
C4_ClosedOperationKinds ==
    (DecodedAs("DynamoDBEventRecord") /\ input.t = "obj" /\ Has(input.v, "eventName")
       /\ Lookup(input.v, "eventName").t = "str") =>
        LET s == Lookup(input.v, "eventName").v
        IN  IF s \in {"INSERT", "MODIFY", "REMOVE"}
            THEN /\ RestDecodes(input) => (value.ok /\ value.val.event_name = OperationKind(s))
                 /\ value.ok => value.val.event_name = OperationKind(s)
            ELSE /\ ~value.ok
                 /\ RestDecodes(input) => value = Err("unknown_variant", s)

C4_Witness ==
    /\ DecodedAs("DynamoDBEventRecord")
    /\ input = JObj(With(RecordPairs, "eventName", JStr("UPDATE")))
    /\ value = Err("unknown_variant", "UPDATE")

RequiredRecordKeys == {"eventID", "eventVersion"}

RequiredStreamKeys == {"SequenceNumber", "SizeBytes", "StreamViewType"}

OptionalStreamFields ==
    { <<"ApproximateCreationDateTime", "approximate_creation_date_time">>,
      <<"Keys", "keys">>, <<"NewImage", "new_image">>, <<"OldImage", "old_image">> }

(* C5: a change record lacking one of eventID, eventVersion,               *)
(* SequenceNumber, SizeBytes, StreamViewType fails with the missing-field  *)
(* error naming that key; a record lacking ApproximateCreationDateTime,    *)
(* Keys, NewImage, OldImage or userIdentity decodes, with that field None. *)
C5_RequiredAndOptionalFields ==
    DecodedAs("DynamoDBEventRecord") =>
        /\ \A k \in RequiredRecordKeys :
              /\ (input.t = "obj" /\ ~Has(input.v, k)) => ~value.ok
              /\ input = JObj(Without(RecordPairs, k)) => value = Err("missing_field", k)
        /\ \A k \in RequiredStreamKeys :
              /\ (input.t = "obj" /\ Has(input.v, "dynamodb")
                    /\ Lookup(input.v, "dynamodb").t = "obj"
                    /\ ~Has(Lookup(input.v, "dynamodb").v, k)) => ~value.ok
              /\ input = RecordWithStream(Without(StreamPairs, k))
                    => value = Err("missing_field", k)
        /\ \A f \in OptionalStreamFields :
              input = RecordWithStream(Without(StreamPairs, f[1]))
                  => (value.ok /\ value.val.dynamodb[f[2]] = None)
        /\ input = JObj(Without(RecordPairs, "userIdentity"))
              => (value.ok /\ value.val.user_identity = None)

C5_Witness ==
    /\ DecodedAs("DynamoDBEventRecord")
    /\ input = RecordWithStream(Without(StreamPairs, "SizeBytes"))
    /\ value = Err("missing_field", "SizeBytes")

(* The optional half of C5 is reached too. *)
C5_WitnessOptional ==
    /\ DecodedAs("DynamoDBEventRecord")
    /\ input = RecordWithStream(Without(StreamPairs, "NewImage"))
    /\ value.ok /\ value.val.dynamodb.new_image = None /\ value.val.dynamodb.keys # None

---------------------------------------------------------------------------
AttributeType == TStruct("AttributeValue")

ImageKeys == {"Keys", "NewImage", "OldImage"}

(* Some attribute value of some Keys / NewImage / OldImage mapping of the  *)
(* record fails to decode.                                                 *)
SomeAttributeFails(rec) ==
    /\ rec.t = "obj" /\ Has(rec.v, "dynamodb")
    /\ Lookup(rec.v, "dynamodb").t = "obj"
    /\ \E k \in ImageKeys :
          LET sp == Lookup(rec.v, "dynamodb").v
          IN  /\ Has(sp, k)
              /\ Lookup(sp, k).t = "obj"
              /\ \E i \in 1..Len(Lookup(sp, k).v) :
                    ~Deserialize(AttributeType, Lookup(sp, k).v[i][2]).ok

(* Some element of the L payload, or some value of the M payload, fails.   *)
SomeNestedFails(j) ==
    /\ j.t = "obj"
    /\ \/ /\ Has(j.v, "L") /\ Lookup(j.v, "L").t = "arr"
          /\ \E i \in 1..Len(Lookup(j.v, "L").v) :
                ~Deserialize(AttributeType, Lookup(j.v, "L").v[i]).ok
       \/ /\ Has(j.v, "M") /\ Lookup(j.v, "M").t = "obj"
          /\ \E i \in 1..Len(Lookup(j.v, "M").v) :
                ~Deserialize(AttributeType, Lookup(j.v, "M").v[i][2]).ok

(* C9: decoding fails as a whole.  When a record of the envelope, an       *)
(* attribute value of a Keys / NewImage / OldImage mapping, or an element  *)
(* inside L or M fails to decode, the containing document fails, however   *)
(* many records decoded before it; a decoded envelope holds one record per *)
(* input record.                                                           *)
C9_FailFast ==
    /\ (DecodedAs("DynamoDBEvent") /\ input.t = "obj" /\ Has(input.v, "Records")
          /\ Lookup(input.v, "Records").t = "arr") =>
         LET recs == Lookup(input.v, "Records").v
         IN  /\ (\E i \in 1..Len(recs) : ~Deserialize(RecordType, recs[i]).ok) => ~value.ok
             /\ (\E i \in 1..Len(recs) : SomeAttributeFails(recs[i])) => ~value.ok
             /\ value.ok =>
                  /\ Len(value.val.records) = Len(recs)
                  /\ \A i \in 1..Len(recs) :
                        value.val.records[i] = Deserialize(RecordType, recs[i]).val
    /\ DecodedAs("DynamoDBEventRecord") => (SomeAttributeFails(input) => ~value.ok)
    /\ DecodedAs("AttributeValue") => (SomeNestedFails(input) => ~value.ok)

C9_Witness ==
    /\ DecodedAs("DynamoDBEvent")
    /\ input.t = "obj" /\ Has(input.v, "Records") /\ Lookup(input.v, "Records").t = "arr"
    /\ LET recs == Lookup(input.v, "Records").v
       IN  /\ Len(recs) >= 3
           /\ \A i \in 1..(Len(recs) - 1) : Deserialize(RecordType, recs[i]).ok
           /\ SomeAttributeFails(recs[Len(recs)])
    /\ ~value.ok

---------------------------------------------------------------------------
BridgeTargets == {"EventBridgeEvent<Value>", "EventBridgeEvent<EC2StateChangeDetail>"}

BridgeScalars ==
    { <<"id", "id">>, <<"version", "version">>, <<"account", "account">>,
      <<"time", "time">>, <<"region", "region">>, <<"source", "source">>,
      <<"detail-type", "detail_type">> }

FixtureDecoded ==
    [ id |-> "6a7e8feb-b491-4cf7-a9f1-bf3703467718",
      version |-> "0",
      account |-> "111122223333",
      time |-> "2017-12-22T18:43:48Z",
      region |-> "us-west-1",
      resources |-> <<FixtureArn>>,
      source |-> "aws.ec2",
      detail_type |-> "EC2 Instance State-change Notification",
      detail |-> [instance_id |-> "i-1234567890abcdef0", state |-> "terminated"] ]

(* C10: a routed envelope decodes from the exact keys id, version,         *)
(* account, time, region, resources, source, detail-type and detail: each  *)
(* field holds the value under its key unchanged, resources in the         *)
(* document's order, detail as the decoder chosen for T yields it (the     *)
(* JSON value itself when T is Value); the EC2 state-change fixture        *)
(* decodes to the fixture's values.                                        *)
C10_EnvelopeFields ==
    (target \in BridgeTargets /\ DecodedAs(target) /\ input.t = "obj") =>
        /\ value.ok =>
             /\ \A f \in BridgeScalars :
                   /\ Has(input.v, f[1])
                   /\ value.val[f[2]] = Lookup(input.v, f[1]).v
             /\ Has(input.v, "resources")
             /\ LET rs == Lookup(input.v, "resources").v
                IN  value.val.resources = [i \in 1..Len(rs) |-> rs[i].v]
             /\ Has(input.v, "detail")
             /\ target = "EventBridgeEvent<Value>"
                    => value.val.detail = Lookup(input.v, "detail")
             /\ target = "EventBridgeEvent<EC2StateChangeDetail>"
                    => Ok(value.val.detail) =
                         Deserialize(TStruct("EC2StateChangeDetail"), Lookup(input.v, "detail"))
        /\ input = Fixture =>
             /\ value.ok
             /\ target = "EventBridgeEvent<EC2StateChangeDetail>" => value.val = FixtureDecoded
             /\ target = "EventBridgeEvent<Value>"
                    => value.val = [FixtureDecoded EXCEPT !.detail = FixtureDetail]

C10_Witness ==
    /\ DecodedAs("EventBridgeEvent<EC2StateChangeDetail>")
    /\ input = Fixture
    /\ value = Ok(FixtureDecoded)

=============================================================================
